---- MODULE Spec2Model ----
(***************************************************************************)
(* The thread pool of src/src/lib.rs: ThreadPool::new, ThreadPool::execute, *)
(* the worker loop spawned by Worker::new, and Drop for ThreadPool.         *)
(*                                                                         *)
(* One owner thread constructs the pool, submits jobs and destroys the     *)
(* pool; `size` worker threads run the receive loop.  The owner and the    *)
(* workers interleave at every blocking or communicating operation: a      *)
(* mutex acquisition, a channel send or receive, a job's execution, a      *)
(* join.                                                                   *)
(***************************************************************************)
EXTENDS Naturals, Integers, Sequences, FiniteSets, TLC

\* Bounds of the model.
MaxSize == 3        \* new is called with a size in 0..MaxSize
MaxJobs == 3        \* at most MaxJobs calls of execute

WorkerIds == 0 .. (MaxSize - 1)
JobIds    == 1 .. MaxJobs
NoWorker  == -1     \* the mutex is free

VARIABLES
    size,        \* the argument of ThreadPool::new
    pc,          \* where the owner thread is
    sender,      \* the pool's mpsc::Sender: "none", "live" or "dropped"
    receiverArc, \* TRUE while new holds its own Arc of the receiver
    queue,       \* the channel's buffer, oldest message first
    workers,     \* ThreadPool.workers: records [id, thread]
    thr,         \* the state of each worker's thread
    cur,         \* the job a worker is executing (0: none)
    lockHolder,  \* who holds the Mutex around the receiver
    poisoned,    \* the Mutex's poison flag
    nextJob,     \* number of jobs submitted so far
    panics,      \* panics[j]: the closure of job j panics when called
    started,     \* started[j]: how many times job j was called
    finished,    \* finished[j]: how many times job j returned
    termSent,    \* Terminate messages sent by drop
    joinIdx,     \* index of drop's second loop
    recvd,       \* recvd[w]: messages worker w has dequeued
    terms        \* terms[w]: Terminate messages worker w has dequeued

vars == << size, pc, sender, receiverArc, queue, workers, thr, cur,
           lockHolder, poisoned, nextJob, panics, started, finished,
           termSent, joinIdx, recvd, terms >>

\* enum Message
NewJob(j) == [kind |-> "NewJob", job |-> j]
Terminate == [kind |-> "Terminate", job |-> 0]

\* A worker thread that has not left its closure still owns its Arc clone.
InLoop(w) == thr[w] \in {"idle", "receiving", "executing"}

\* The thread function has returned or unwound: join no longer blocks.
ThreadDone(w) == thr[w] \in {"exited", "panicked"}

\* Variant of ReceiverAlive: the workers own no share of the Receiver.
ReceiverAliveLocalOnly == receiverArc

\* The Receiver lives as long as one Arc to it does: the one new holds until
\* it returns, and the clone moved into each worker's closure.
ReceiverAlive == receiverArc \/ \E w \in WorkerIds : InLoop(w)

Init ==
    /\ size \in 0 .. MaxSize
    /\ pc = "start"
    /\ sender = "none"
    /\ receiverArc = FALSE
    /\ queue = << >>
    /\ workers = << >>
    /\ thr = [w \in WorkerIds |-> "none"]
    /\ cur = [w \in WorkerIds |-> 0]
    /\ lockHolder = NoWorker
    /\ poisoned = FALSE
    /\ nextJob = 0
    /\ panics = [j \in JobIds |-> FALSE]
    /\ started = [j \in JobIds |-> 0]
    /\ finished = [j \in JobIds |-> 0]
    /\ termSent = 0
    /\ joinIdx = 0
    /\ recvd = [w \in WorkerIds |-> 0]
    /\ terms = [w \in WorkerIds |-> 0]

----------------------------------------------------------------------------
\* ThreadPool::new

\* Variant of NewChannel: the size is not asserted.
NewChannelNoAssert ==
    /\ pc = "start"
    /\ pc' = "spawning"
    /\ sender' = "live"
    /\ receiverArc' = TRUE
    /\ UNCHANGED << size, queue, workers, thr, cur, lockHolder, poisoned,
                    nextJob, panics, started, finished, termSent, joinIdx,
                    recvd, terms >>

\* assert!(size > 0), then mpsc::channel() and Arc::new(Mutex::new(receiver)).
NewChannel ==
    /\ pc = "start"
    /\ IF size > 0
         THEN /\ pc' = "spawning"
              /\ sender' = "live"
              /\ receiverArc' = TRUE
         ELSE /\ pc' = "new_panicked"
              /\ UNCHANGED << sender, receiverArc >>
    /\ UNCHANGED << size, queue, workers, thr, cur, lockHolder, poisoned,
                    nextJob, panics, started, finished, termSent, joinIdx,
                    recvd, terms >>

\* Variant of Spawn: every worker is given the id 0.
SpawnSameId ==
    /\ pc = "spawning"
    /\ Len(workers) < size
    /\ workers' = Append(workers, [id |-> 0, thread |-> TRUE])
    /\ thr' = [thr EXCEPT ![Len(workers)] = "idle"]
    /\ UNCHANGED << size, pc, sender, receiverArc, queue, cur, lockHolder,
                    poisoned, nextJob, panics, started, finished, termSent,
                    joinIdx, recvd, terms >>

\* One iteration of `for id in 0..size`: Worker::new(id, Arc::clone(&receiver))
\* spawns the thread, which starts at the top of its loop, and the Worker
\* { id, thread: Some(thread) } is pushed.
Spawn ==
    /\ pc = "spawning"
    /\ Len(workers) < size
    /\ LET id == Len(workers) IN
         /\ workers' = Append(workers, [id |-> id, thread |-> TRUE])
         /\ thr' = [thr EXCEPT ![id] = "idle"]
    /\ UNCHANGED << size, pc, sender, receiverArc, queue, cur, lockHolder,
                    poisoned, nextJob, panics, started, finished, termSent,
                    joinIdx, recvd, terms >>

\* The loop is over: new returns ThreadPool { workers, sender } and its local
\* `receiver` Arc goes out of scope.
NewReturn ==
    /\ pc = "spawning"
    /\ Len(workers) = size
    /\ pc' = "running"
    /\ receiverArc' = FALSE
    /\ UNCHANGED << size, sender, queue, workers, thr, cur, lockHolder,
                    poisoned, nextJob, panics, started, finished, termSent,
                    joinIdx, recvd, terms >>

----------------------------------------------------------------------------
\* ThreadPool::execute: self.sender.send(Message::NewJob(job)).unwrap().
\* p is what the submitted closure does when called: panic or return.
\* send fails, and unwrap panics, when the Receiver has been dropped.
Execute(p) ==
    /\ pc = "running"
    /\ nextJob < MaxJobs
    /\ IF ReceiverAlive
         THEN /\ nextJob' = nextJob + 1
              /\ panics' = [panics EXCEPT ![nextJob + 1] = p]
              /\ queue' = Append(queue, NewJob(nextJob + 1))
              /\ pc' = pc
         ELSE /\ pc' = "execute_panicked"
              /\ UNCHANGED << nextJob, panics, queue >>
    /\ UNCHANGED << size, sender, receiverArc, workers, thr, cur, lockHolder,
                    poisoned, started, finished, termSent, joinIdx, recvd,
                    terms >>

----------------------------------------------------------------------------
\* The closure of Worker::new

\* Variant of Lock: the receiver is shared without mutual exclusion.
LockNoExclusion(w) ==
    /\ thr[w] = "idle"
    /\ IF poisoned
         THEN /\ thr' = [thr EXCEPT ![w] = "panicked"]
              /\ UNCHANGED lockHolder
         ELSE /\ thr' = [thr EXCEPT ![w] = "receiving"]
              /\ lockHolder' = w
    /\ UNCHANGED << size, pc, sender, receiverArc, queue, workers, cur,
                    poisoned, nextJob, panics, started, finished, termSent,
                    joinIdx, recvd, terms >>

\* receiver.lock().unwrap(): blocks while another worker holds the mutex;
\* on a poisoned mutex lock() returns Err and unwrap panics, the guard inside
\* the error being dropped by the unwinding.
Lock(w) ==
    /\ thr[w] = "idle"
    /\ lockHolder = NoWorker
    /\ IF poisoned
         THEN /\ thr' = [thr EXCEPT ![w] = "panicked"]
              /\ UNCHANGED lockHolder
         ELSE /\ thr' = [thr EXCEPT ![w] = "receiving"]
              /\ lockHolder' = w
    /\ UNCHANGED << size, pc, sender, receiverArc, queue, workers, cur,
                    poisoned, nextJob, panics, started, finished, termSent,
                    joinIdx, recvd, terms >>

\* Variant of Dispatch: the worker starts a fresh thread for each job and
\* goes back to receiving.
DispatchSpawnsThread(w, msg) ==
    /\ recvd' = [recvd EXCEPT ![w] = @ + 1]
    /\ IF msg.kind = "NewJob"
         THEN /\ IF \E u \in WorkerIds : thr[u] = "none"
                   THEN LET u == CHOOSE x \in WorkerIds : thr[x] = "none" IN
                          /\ thr' = [thr EXCEPT ![u] = "executing", ![w] = "idle"]
                          /\ cur' = [cur EXCEPT ![u] = msg.job]
                   ELSE /\ thr' = [thr EXCEPT ![w] = "executing"]
                        /\ cur' = [cur EXCEPT ![w] = msg.job]
              /\ started' = [started EXCEPT ![msg.job] = @ + 1]
              /\ UNCHANGED terms
         ELSE /\ thr' = [thr EXCEPT ![w] = "exited"]
              /\ terms' = [terms EXCEPT ![w] = @ + 1]
              /\ UNCHANGED << cur, started >>

\* Variant of Dispatch: the worker loops on without waiting for the job it
\* has just begun.
DispatchDetached(w, msg) ==
    /\ recvd' = [recvd EXCEPT ![w] = @ + 1]
    /\ IF msg.kind = "NewJob"
         THEN /\ thr' = [thr EXCEPT ![w] = "idle"]
              /\ cur' = [cur EXCEPT ![w] = msg.job]
              /\ started' = [started EXCEPT ![msg.job] = @ + 1]
              /\ UNCHANGED terms
         ELSE /\ thr' = [thr EXCEPT ![w] = "exited"]
              /\ terms' = [terms EXCEPT ![w] = @ + 1]
              /\ UNCHANGED << cur, started >>

\* What the worker does with the message it received: call the job, or break.
Dispatch(w, msg) ==
    /\ recvd' = [recvd EXCEPT ![w] = @ + 1]
    /\ IF msg.kind = "NewJob"
         THEN /\ thr' = [thr EXCEPT ![w] = "executing"]
              /\ cur' = [cur EXCEPT ![w] = msg.job]
              /\ started' = [started EXCEPT ![msg.job] = @ + 1]
              /\ UNCHANGED terms
         ELSE /\ thr' = [thr EXCEPT ![w] = "exited"]
              /\ terms' = [terms EXCEPT ![w] = @ + 1]
              /\ UNCHANGED << cur, started >>

\* Variant of Recv: the guard is bound for the whole match, so the lock stays
\* held while the job runs.
RecvKeepsGuard(w) ==
    /\ thr[w] = "receiving"
    /\ lockHolder = w
    /\ IF queue # << >>
         THEN /\ queue' = Tail(queue)
              /\ lockHolder' = IF Head(queue).kind = "NewJob" THEN w ELSE NoWorker
              /\ UNCHANGED poisoned
              /\ Dispatch(w, Head(queue))
         ELSE /\ sender = "dropped"
              /\ poisoned' = TRUE
              /\ lockHolder' = NoWorker
              /\ thr' = [thr EXCEPT ![w] = "panicked"]
              /\ UNCHANGED << queue, cur, started, recvd, terms >>
    /\ UNCHANGED << size, pc, sender, receiverArc, workers, nextJob, panics,
                    finished, termSent, joinIdx >>

\* Variant of Recv: a message is handed out only while no job is running.
RecvSerialised(w) ==
    /\ thr[w] = "receiving"
    /\ lockHolder = w
    /\ \A u \in WorkerIds : thr[u] # "executing"
    /\ IF queue # << >>
         THEN /\ queue' = Tail(queue)
              /\ lockHolder' = NoWorker
              /\ UNCHANGED poisoned
              /\ Dispatch(w, Head(queue))
         ELSE /\ sender = "dropped"
              /\ poisoned' = TRUE
              /\ lockHolder' = NoWorker
              /\ thr' = [thr EXCEPT ![w] = "panicked"]
              /\ UNCHANGED << queue, cur, started, recvd, terms >>
    /\ UNCHANGED << size, pc, sender, receiverArc, workers, nextJob, panics,
                    finished, termSent, joinIdx >>

\* Variant of Recv: the message returned stays in the queue.
RecvNoDequeue(w) ==
    /\ thr[w] = "receiving"
    /\ lockHolder = w
    /\ queue # << >>
    /\ UNCHANGED queue
    /\ lockHolder' = NoWorker
    /\ UNCHANGED poisoned
    /\ Dispatch(w, Head(queue))
    /\ UNCHANGED << size, pc, sender, receiverArc, workers, nextJob, panics,
                    finished, termSent, joinIdx >>

\* Variant of Recv: the newest message is returned first.
RecvNewestFirst(w) ==
    /\ thr[w] = "receiving"
    /\ lockHolder = w
    /\ queue # << >>
    /\ queue' = SubSeq(queue, 1, Len(queue) - 1)
    /\ lockHolder' = NoWorker
    /\ UNCHANGED poisoned
    /\ Dispatch(w, queue[Len(queue)])
    /\ UNCHANGED << size, pc, sender, receiverArc, workers, nextJob, panics,
                    finished, termSent, joinIdx >>

\* .recv().unwrap() under the guard, which is a temporary of the `let`
\* statement and so is dropped before the match: recv blocks while the queue
\* is empty and the Sender lives; it returns the oldest message; it fails on
\* an empty queue whose Sender is gone, and that unwrap panics with the
\* guard alive, which poisons the mutex.
Recv(w) ==
    /\ thr[w] = "receiving"
    /\ lockHolder = w
    /\ IF queue # << >>
         THEN /\ queue' = Tail(queue)
              /\ lockHolder' = NoWorker
              /\ UNCHANGED poisoned
              /\ Dispatch(w, Head(queue))
         ELSE /\ sender = "dropped"
              /\ poisoned' = TRUE
              /\ lockHolder' = NoWorker
              /\ thr' = [thr EXCEPT ![w] = "panicked"]
              /\ UNCHANGED << queue, cur, started, recvd, terms >>
    /\ UNCHANGED << size, pc, sender, receiverArc, workers, nextJob, panics,
                    finished, termSent, joinIdx >>

\* Variant of RunJob: the job runs under the guard, so its panic poisons.
RunJobPoisons(w) ==
    /\ thr[w] = "executing"
    /\ IF panics[cur[w]]
         THEN /\ thr' = [thr EXCEPT ![w] = "panicked"]
              /\ poisoned' = TRUE
              /\ UNCHANGED finished
         ELSE /\ thr' = [thr EXCEPT ![w] = "idle"]
              /\ finished' = [finished EXCEPT ![cur[w]] = @ + 1]
              /\ UNCHANGED poisoned
    /\ cur' = [cur EXCEPT ![w] = 0]
    /\ UNCHANGED << size, pc, sender, receiverArc, queue, workers,
                    lockHolder, nextJob, panics, started, termSent,
                    joinIdx, recvd, terms >>

\* Variant of RunJob: the worker leaves its loop after one job.
RunJobThenBreak(w) ==
    /\ thr[w] = "executing"
    /\ IF panics[cur[w]]
         THEN /\ thr' = [thr EXCEPT ![w] = "panicked"]
              /\ UNCHANGED finished
         ELSE /\ thr' = [thr EXCEPT ![w] = "exited"]
              /\ finished' = [finished EXCEPT ![cur[w]] = @ + 1]
    /\ cur' = [cur EXCEPT ![w] = 0]
    /\ UNCHANGED << size, pc, sender, receiverArc, queue, workers,
                    lockHolder, poisoned, nextJob, panics, started, termSent,
                    joinIdx, recvd, terms >>

\* job.call_box(): the closure runs with the mutex released.  When it
\* returns the worker loops; when it panics the thread unwinds out of the
\* loop, holding no guard.
RunJob(w) ==
    /\ thr[w] = "executing"
    /\ IF panics[cur[w]]
         THEN /\ thr' = [thr EXCEPT ![w] = "panicked"]
              /\ UNCHANGED finished
         ELSE /\ thr' = [thr EXCEPT ![w] = "idle"]
              /\ finished' = [finished EXCEPT ![cur[w]] = @ + 1]
    /\ cur' = [cur EXCEPT ![w] = 0]
    /\ UNCHANGED << size, pc, sender, receiverArc, queue, workers,
                    lockHolder, poisoned, nextJob, panics, started, termSent,
                    joinIdx, recvd, terms >>

----------------------------------------------------------------------------
\* Drop for ThreadPool

\* Variant of BeginDrop: the pool is dropped with no shutdown protocol, its
\* Sender going at once.
BeginDropNoProtocol ==
    /\ pc = "running"
    /\ pc' = "joined"
    /\ sender' = "dropped"
    /\ UNCHANGED << size, receiverArc, queue, workers, thr, cur, lockHolder,
                    poisoned, nextJob, panics, started, finished, termSent,
                    joinIdx, recvd, terms >>

\* The pool goes out of scope: drop(&mut self) is entered.
BeginDrop ==
    /\ pc = "running"
    /\ pc' = "drop_send"
    /\ UNCHANGED << size, sender, receiverArc, queue, workers, thr, cur,
                    lockHolder, poisoned, nextJob, panics, started, finished,
                    termSent, joinIdx, recvd, terms >>

\* Variant of DropSend: each send is followed at once by the join loop.
DropSendInterleaved ==
    /\ pc = "drop_send"
    /\ IF ReceiverAlive
         THEN /\ queue' = Append(queue, Terminate)
              /\ termSent' = termSent + 1
              /\ pc' = "drop_join"
              /\ UNCHANGED sender
         ELSE /\ pc' = "drop_panicked"
              /\ sender' = "dropped"
              /\ UNCHANGED << queue, termSent >>
    /\ UNCHANGED << size, receiverArc, workers, thr, cur, lockHolder,
                    poisoned, nextJob, panics, started, finished, joinIdx,
                    recvd, terms >>

\* Variant of DropSend: the first loop sends one message too many.
DropSendOneMore ==
    /\ pc = "drop_send"
    /\ IF ReceiverAlive
         THEN /\ queue' = Append(queue, Terminate)
              /\ termSent' = termSent + 1
              /\ pc' = IF termSent + 1 = Len(workers) + 1
                         THEN "drop_join" ELSE "drop_send"
              /\ UNCHANGED sender
         ELSE /\ pc' = "drop_panicked"
              /\ sender' = "dropped"
              /\ UNCHANGED << queue, termSent >>
    /\ UNCHANGED << size, receiverArc, workers, thr, cur, lockHolder,
                    poisoned, nextJob, panics, started, finished, joinIdx,
                    recvd, terms >>

\* Variant of DropSend: the first loop stops one message short.
DropSendOneFewer ==
    /\ pc = "drop_send"
    /\ IF ReceiverAlive
         THEN /\ queue' = Append(queue, Terminate)
              /\ termSent' = termSent + 1
              /\ pc' = IF termSent + 2 >= Len(workers)
                         THEN "drop_join" ELSE "drop_send"
              /\ UNCHANGED sender
         ELSE /\ pc' = "drop_panicked"
              /\ sender' = "dropped"
              /\ UNCHANGED << queue, termSent >>
    /\ UNCHANGED << size, receiverArc, workers, thr, cur, lockHolder,
                    poisoned, nextJob, panics, started, finished, joinIdx,
                    recvd, terms >>

\* One iteration of the first loop: self.sender.send(Message::Terminate)
\* .unwrap().  A failed send panics out of drop, and the unwinding drops the
\* pool's fields, the Sender among them.
DropSend ==
    /\ pc = "drop_send"
    /\ IF ReceiverAlive
         THEN /\ queue' = Append(queue, Terminate)
              /\ termSent' = termSent + 1
              /\ pc' = IF termSent + 1 = Len(workers)
                         THEN "drop_join" ELSE "drop_send"
              /\ UNCHANGED sender
         ELSE /\ pc' = "drop_panicked"
              /\ sender' = "dropped"
              /\ UNCHANGED << queue, termSent >>
    /\ UNCHANGED << size, receiverArc, workers, thr, cur, lockHolder,
                    poisoned, nextJob, panics, started, finished, joinIdx,
                    recvd, terms >>

\* Variant of DropTake: the second loop runs over the workers backwards.
DropTakeLastFirst ==
    /\ pc = "drop_join"
    /\ joinIdx < Len(workers)
    /\ IF workers[Len(workers) - joinIdx].thread
         THEN /\ workers' = [workers EXCEPT ![Len(workers) - joinIdx].thread = FALSE]
              /\ pc' = "drop_joining"
              /\ UNCHANGED joinIdx
         ELSE /\ joinIdx' = joinIdx + 1
              /\ UNCHANGED << workers, pc >>
    /\ UNCHANGED << size, sender, receiverArc, queue, thr, cur, lockHolder,
                    poisoned, nextJob, panics, started, finished, termSent,
                    recvd, terms >>

\* Second loop, worker.thread.take(): the handle leaves the Worker; a worker
\* whose handle is already None is skipped.
DropTake ==
    /\ pc = "drop_join"
    /\ joinIdx < Len(workers)
    /\ IF workers[joinIdx + 1].thread
         THEN /\ workers' = [workers EXCEPT ![joinIdx + 1].thread = FALSE]
              /\ pc' = "drop_joining"
              /\ UNCHANGED joinIdx
         ELSE /\ joinIdx' = joinIdx + 1
              /\ UNCHANGED << workers, pc >>
    /\ UNCHANGED << size, sender, receiverArc, queue, thr, cur, lockHolder,
                    poisoned, nextJob, panics, started, finished, termSent,
                    recvd, terms >>

\* Variant of DropJoin: join does not wait for the thread.
DropJoinNoWait ==
    /\ pc = "drop_joining"
    /\ IF thr[workers[joinIdx + 1].id] = "panicked"
         THEN /\ pc' = "drop_panicked"
              /\ sender' = "dropped"
              /\ UNCHANGED joinIdx
         ELSE /\ pc' = "drop_join"
              /\ joinIdx' = joinIdx + 1
              /\ UNCHANGED sender
    /\ UNCHANGED << size, receiverArc, queue, workers, thr, cur, lockHolder,
                    poisoned, nextJob, panics, started, finished, termSent,
                    recvd, terms >>

\* thread.join().unwrap(): blocks until the worker's thread is done; join
\* returns Err for a thread that panicked, and unwrap then panics out of
\* drop, the unwinding dropping the Sender.
DropJoin ==
    /\ pc = "drop_joining"
    /\ ThreadDone(workers[joinIdx + 1].id)
    /\ IF thr[workers[joinIdx + 1].id] = "panicked"
         THEN /\ pc' = "drop_panicked"
              /\ sender' = "dropped"
              /\ UNCHANGED joinIdx
         ELSE /\ pc' = "drop_join"
              /\ joinIdx' = joinIdx + 1
              /\ UNCHANGED sender
    /\ UNCHANGED << size, receiverArc, queue, workers, thr, cur, lockHolder,
                    poisoned, nextJob, panics, started, finished, termSent,
                    recvd, terms >>

\* drop returns; the pool's fields are dropped after it, the Sender among
\* them.
DropReturn ==
    /\ pc = "drop_join"
    /\ joinIdx = Len(workers)
    /\ pc' = "joined"
    /\ sender' = "dropped"
    /\ UNCHANGED << size, receiverArc, queue, workers, thr, cur, lockHolder,
                    poisoned, nextJob, panics, started, finished, termSent,
                    joinIdx, recvd, terms >>

----------------------------------------------------------------------------
Owner ==
    \/ NewChannel
    \/ Spawn
    \/ NewReturn
    \/ BeginDrop
    \/ DropSend
    \/ DropTake
    \/ DropJoin
    \/ DropReturn

Worker(w) ==
    \/ Lock(w)
    \/ Recv(w)
    \/ RunJob(w)

Next ==
    \/ Owner
    \/ \E p \in BOOLEAN : Execute(p)
    \/ \E w \in WorkerIds : Worker(w)

Spec == Init /\ [][Next]_vars

\* The executions in which no submitted job panics, under the scheduling the
\* threads get: a worker that can take a step eventually takes it, every job
\* terminates, and drop, once entered, runs on.  Submitting a job and
\* destroying the pool remain the caller's choice.
NextNoPanic ==
    \/ Owner
    \/ Execute(FALSE)
    \/ \E w \in WorkerIds : Worker(w)

Fairness ==
    /\ \A w \in WorkerIds : WF_vars(Lock(w)) /\ WF_vars(Recv(w)) /\ WF_vars(RunJob(w))
    /\ WF_vars(NewChannel) /\ WF_vars(Spawn) /\ WF_vars(NewReturn)
    /\ WF_vars(DropSend) /\ WF_vars(DropTake) /\ WF_vars(DropJoin)
    /\ WF_vars(DropReturn)

SpecNoPanic == Init /\ [][NextNoPanic]_vars /\ Fairness

----------------------------------------------------------------------------
\* Observations used by the properties below.

\* The owner has left new with a pool.
PoolBuilt ==
    pc \in {"running", "execute_panicked", "drop_send", "drop_join",
            "drop_joining", "drop_panicked", "joined"}

\* drop has sent all its messages and is in, or past, its second loop.
Joining == pc \in {"drop_join", "drop_joining", "joined"}

SpawnedIds == 0 .. (size - 1)

RECURSIVE SumOver(_, _)
SumOver(f, S) ==
    IF S = {} THEN 0
    ELSE LET x == CHOOSE y \in S : TRUE IN f[x] + SumOver(f, S \ {x})

\* Terminate messages that exist: still queued, or already dequeued.
TermsQueued == Cardinality({i \in DOMAIN queue : queue[i].kind = "Terminate"})
TermsTotal  == TermsQueued + SumOver(terms, WorkerIds)

JobsQueued == {queue[i].job : i \in {k \in DOMAIN queue : queue[k].kind = "NewJob"}}

----------------------------------------------------------------------------
\* C1: in every reachable state each submitted job has been started at most
\* once in total: no job was called twice, and no two workers are executing
\* the same job.
C1_StartedAtMostOnce ==
    /\ \A j \in JobIds : started[j] <= 1
    /\ \A w1, w2 \in WorkerIds :
         (w1 # w2 /\ cur[w1] # 0) => cur[w1] # cur[w2]

\* Two workers, two jobs, each job started once.
C1_Witness ==
    /\ size >= 2
    /\ nextJob >= 2
    /\ \A j \in 1 .. nextJob : started[j] = 1
    /\ \E w1, w2 \in WorkerIds : w1 # w2 /\ recvd[w1] > 0 /\ recvd[w2] > 0

\* C2: when no job panics, under fair scheduling every submitted job is
\* eventually executed to completion, and never more than once.
C2_EventuallyExactlyOnce ==
    /\ \A j \in JobIds : (nextJob >= j) ~> (finished[j] = 1)
    /\ [](\A j \in JobIds : started[j] <= 1 /\ finished[j] <= started[j])

\* All MaxJobs jobs were submitted and each has run once.
C2_Witness ==
    /\ nextJob = MaxJobs
    /\ \A j \in JobIds : started[j] = 1 /\ finished[j] = 1

\* C3: drop sends exactly size Terminate messages: never more, and all of
\* them before its join loop; and drop has not returned while a worker
\* thread is still running.
C3_SizeTerminatesThenJoin ==
    /\ TermsTotal <= size
    /\ TermsTotal = termSent
    /\ Joining => TermsTotal = size
    /\ pc = "joined" =>
         /\ Len(workers) = size
         /\ \A i \in 1 .. Len(workers) : ThreadDone(workers[i].id)

\* drop has returned on a pool of MaxSize workers.
C3_Witness ==
    /\ pc = "joined"
    /\ size = MaxSize
    /\ TermsTotal = MaxSize

\* C4: when drop has returned, every job submitted before it has run to
\* completion; and a Terminate is dequeued only when no job is left in the
\* queue.
C4_DrainedBeforeJoined ==
    /\ pc = "joined" => \A j \in 1 .. nextJob : finished[j] = 1
    /\ (\E w \in WorkerIds : terms[w] > 0) => JobsQueued = {}
    /\ \A i, k \in DOMAIN queue :
         (i < k /\ queue[i].kind = "Terminate") => queue[k].kind = "Terminate"

\* The scenario of two workers and three jobs, after drop has returned.
C4_Witness ==
    /\ pc = "joined"
    /\ size = 2
    /\ nextJob = 3
    /\ \A j \in 1 .. 3 : finished[j] = 1

\* C5: when no job panics, once drop is entered it eventually returns; no
\* worker ever dequeues a second Terminate; when drop has returned every
\* worker has dequeued exactly one Terminate and exited; and with no job
\* submitted that Terminate is the only message each worker dequeued.
C5_DropTerminates ==
    /\ (pc = "drop_send") ~> (pc = "joined")
    /\ [](\A w \in WorkerIds : terms[w] <= 1)
    /\ [](pc = "joined" =>
            \A w \in SpawnedIds : terms[w] = 1 /\ thr[w] = "exited")
    /\ []((pc = "joined" /\ nextJob = 0) =>
            \A w \in SpawnedIds : recvd[w] = 1)

\* A pool of MaxSize workers destroyed with no job submitted.
C5_Witness ==
    /\ pc = "joined"
    /\ size = MaxSize
    /\ nextJob = 0
    /\ \A w \in SpawnedIds : recvd[w] = 1 /\ terms[w] = 1

\* C6, as stated: whenever a job has taken down its worker, the receive lock
\* is poisoned.
C6_PanicPoisonsLock ==
    (\E w \in WorkerIds : thr[w] = "panicked") => poisoned

\* C6, amended: a worker taken down by a panicking job never dequeues
\* another message, but it does not hold the lock when it dies and the lock
\* is never poisoned: the other workers go on receiving.
C6_PanicIsLocal ==
    /\ [][\A w \in WorkerIds :
            thr[w] = "panicked" =>
                thr'[w] = "panicked" /\ recvd'[w] = recvd[w]]_vars
    /\ [](~poisoned)
    /\ [](\A w \in WorkerIds : thr[w] = "panicked" => lockHolder # w)

\* Job 1 took its worker down, and another worker has since dequeued and is
\* executing the last job.
C6_Witness ==
    /\ panics[1]
    /\ \A j \in JobIds : j # 1 => ~panics[j]
    /\ \E w1, w2 \in WorkerIds :
         /\ thr[w1] = "panicked"
         /\ thr[w2] = "executing"
         /\ cur[w2] = MaxJobs

\* C7: in a pool of one worker whose first job panics, a second job is never
\* executed, and the destruction of the pool returns instead of failing.
C7_DropCompletesAfterPanic ==
    (size = 1 /\ panics[1] /\ nextJob >= 2) =>
        (started[2] = 0 /\ pc # "drop_panicked")

\* C8, as stated: execute never fails while the pool is running.  The owner
\* cannot call execute once drop has begun, so every failure of execute is
\* one in the Running state.
C8_ExecuteNeverFailsRunning == pc # "execute_panicked"

\* C8, amended: execute fails only when no thread holds the receiver any
\* more, that is when every worker has been taken down by a panic.
C8_ExecuteFailsOnlyWithoutWorkers ==
    pc = "execute_panicked" =>
        /\ ~ReceiverAlive
        /\ \A w \in SpawnedIds : thr[w] = "panicked"

\* execute failed on a pool of two workers.
C8_Witness ==
    /\ pc = "execute_panicked"
    /\ size = 2

\* C9: once new has returned there are exactly size workers, the i-th with
\* id i, and that never changes; when new returns every handle is present
\* and every thread has been spawned.
C9_SizeWorkersDistinctIds ==
    /\ PoolBuilt =>
         /\ size > 0
         /\ Len(workers) = size
         /\ \A i \in 1 .. size : workers[i].id = i - 1
         /\ \A i, k \in 1 .. size : i # k => workers[i].id # workers[k].id
         /\ \A w \in WorkerIds : (thr[w] # "none") <=> (w \in SpawnedIds)
    /\ pc = "running" => \A i \in 1 .. size : workers[i].thread

\* new(MaxSize) has returned.
C9_Witness ==
    /\ pc = "running"
    /\ size = MaxSize
    /\ Len(workers) = MaxSize

\* C10: new(0) goes nowhere but into the failed state, in which there is no
\* channel, no worker and no message.
C10_ZeroSizeFails ==
    size = 0 =>
        /\ pc \in {"start", "new_panicked"}
        /\ sender = "none"
        /\ ~receiverArc
        /\ workers = << >>
        /\ queue = << >>
        /\ \A w \in WorkerIds : thr[w] = "none"

\* new(0) has failed.
C10_Witness ==
    /\ size = 0
    /\ pc = "new_panicked"

----------------------------------------------------------------------------
\* The workers that are executing a job.
Executing == {w \in WorkerIds : thr[w] = "executing"}

\* The positions of ThreadPool.workers whose handle has been taken.
HandlesTaken == {i \in DOMAIN workers : ~workers[i].thread}

\* C11: in every reachable state the number of jobs being executed at the
\* same time is at most the size given to new.
C11_AtMostSizeJobsRunning ==
    /\ Cardinality(Executing) <= size
    /\ Cardinality({j \in JobIds : \E w \in Executing : cur[w] = j})
         = Cardinality(Executing)

\* A pool of MaxSize workers with every worker executing a job.
C11_Witness ==
    /\ size = MaxSize
    /\ Cardinality(Executing) = MaxSize

\* C12: no join has begun (no handle is taken, drop is not blocked in a join)
\* while fewer than size Terminate messages have been sent.
C12_AllTerminatesBeforeFirstJoin ==
    (HandlesTaken # {} \/ pc = "drop_joining" \/ joinIdx > 0) =>
        (termSent = size /\ TermsTotal = size)

\* drop is blocked in its first join, on a pool of MaxSize workers of which
\* none has exited yet.
C12_Witness ==
    /\ pc = "drop_joining"
    /\ joinIdx = 0
    /\ size = MaxSize
    /\ termSent = MaxSize
    /\ \A w \in SpawnedIds : InLoop(w)

\* C13: while a worker is executing a job it dequeues nothing and begins no
\* other job; it holds the lock, and so receives, only with no job in hand.
C13_SequentialPerWorker ==
    /\ [][\A w \in WorkerIds :
            cur[w] # 0 =>
                /\ recvd'[w] = recvd[w]
                /\ cur'[w] \in {cur[w], 0}]_vars
    /\ [](\A w \in WorkerIds :
            /\ (cur[w] # 0) <=> (thr[w] = "executing")
            /\ lockHolder = w => cur[w] = 0)

\* A worker that has finished one job is executing its second.
C13_Witness ==
    \E w \in WorkerIds :
        /\ thr[w] = "executing"
        /\ cur[w] >= 2
        /\ recvd[w] >= 2
        /\ finished[1] = 1

\* The workers inside receiver.lock().unwrap().recv().
Receiving == {w \in WorkerIds : thr[w] = "receiving"}

\* C14: no worker holds the receive lock while it executes a job: the lock
\* is held only by a worker inside recv, so an idle worker is kept from the
\* lock only by a worker that is itself receiving, never by a running job.
C14_LockOnlyAroundDequeue ==
    /\ \A w \in Executing : lockHolder # w
    /\ lockHolder # NoWorker => lockHolder \in Receiving
    /\ \A w \in WorkerIds :
         thr[w] = "idle" =>
            (ENABLED Lock(w)) \/ (\E u \in Receiving : u # w /\ lockHolder = u)

\* One worker is executing a job while another holds the lock with a message
\* waiting in the queue.
C14_Witness ==
    \E w1, w2 \in WorkerIds :
        /\ w1 # w2
        /\ thr[w1] = "executing"
        /\ lockHolder = w2
        /\ queue # << >>

\* C15: at most one worker holds the receive lock, and so at most one is
\* inside recv; every message sent is either still queued or was dequeued
\* by exactly one worker.
C15_ExclusiveDequeue ==
    /\ Cardinality(Receiving) <= 1
    /\ \A w \in WorkerIds : (w \in Receiving) <=> (lockHolder = w)
    /\ SumOver(recvd, WorkerIds) + Len(queue) = nextJob + termSent
    /\ \A j \in 1 .. nextJob : started[j] + Cardinality({j} \cap JobsQueued) = 1

\* One worker is blocked in recv on an empty queue, another waits for the
\* lock, and two messages have already been dequeued.
C15_Witness ==
    \E w1, w2 \in WorkerIds :
        /\ w1 # w2
        /\ thr[w1] = "receiving"
        /\ thr[w2] = "idle"
        /\ queue = << >>
        /\ SumOver(recvd, WorkerIds) >= 2

\* C16: a job running on one worker does not keep a second worker that is
\* inside recv from taking the next message: with a message queued its
\* receive can proceed, which for a job puts two workers mid-job at once.
C16_SecondWorkerCanStart ==
    \A w1, w2 \in WorkerIds :
        (w1 # w2 /\ thr[w1] = "executing" /\ thr[w2] = "receiving"
            /\ queue # << >>) => ENABLED Recv(w2)

\* Two different workers are executing the first two jobs at the same time.
C16_Witness ==
    \E w1, w2 \in WorkerIds :
        /\ w1 # w2
        /\ thr[w1] = "executing" /\ cur[w1] = 1
        /\ thr[w2] = "executing" /\ cur[w2] = 2

\* The workers still in their loop that have dequeued no Terminate.
AwaitingTerminate == {w \in SpawnedIds : InLoop(w) /\ terms[w] = 0}

\* C17: handles are taken in index order, a worker's handle only after every
\* earlier worker's handle was taken and its thread had exited; a handle
\* once absent stays absent; when drop has returned every handle is absent
\* and every thread has exited.
C17_JoinInIndexOrder ==
    /\ [](\A i \in HandlesTaken : \A k \in 1 .. (i - 1) :
            k \in HandlesTaken /\ ThreadDone(workers[k].id))
    /\ [](HandlesTaken # {} => joinIdx + 1 >= Cardinality(HandlesTaken))
    /\ [][\A i \in HandlesTaken : ~workers'[i].thread]_vars
    /\ [](pc = "joined" =>
            \A i \in 1 .. size : ~workers[i].thread /\ ThreadDone(workers[i].id))

\* drop has returned on a pool of MaxSize workers, every handle taken.
C17_Witness ==
    /\ pc = "joined"
    /\ size = MaxSize
    /\ HandlesTaken = 1 .. MaxSize

\* C18: when no job panics, no worker's receive fails and the lock is never
\* poisoned: no worker thread panics, and the Sender is dropped only when
\* drop has returned, every worker having left its loop on a Terminate.
C18_NoReceiveFailure ==
    /\ ~poisoned
    /\ \A w \in WorkerIds : thr[w] # "panicked"
    /\ sender = "dropped" =>
         /\ pc = "joined"
         /\ \A w \in SpawnedIds : thr[w] = "exited" /\ terms[w] = 1

\* The Sender has been dropped after jobs ran on a pool of several workers.
C18_Witness ==
    /\ sender = "dropped"
    /\ size >= 2
    /\ nextJob >= 1
    /\ \A j \in 1 .. nextJob : finished[j] = 1
    /\ ~poisoned

\* C19: when no job panics, no Terminate send of drop fails: whenever a send
\* is due, the Receiver is alive because enough workers that have dequeued
\* no Terminate are still in their loop; and when drop has returned the
\* queue is empty.
C19_TerminateSendsSucceed ==
    /\ pc # "drop_panicked"
    /\ pc = "drop_send" =>
         /\ termSent < size
         /\ ReceiverAlive
         /\ AwaitingTerminate # {}
         /\ Cardinality(AwaitingTerminate) >= size - termSent
    /\ pc = "joined" => queue = << >>

\* The last send is due on a pool of MaxSize workers of which all but one
\* have already dequeued their Terminate and exited.
C19_Witness ==
    /\ pc = "drop_send"
    /\ size = MaxSize
    /\ termSent = MaxSize - 1
    /\ Cardinality(AwaitingTerminate) = 1
    /\ Cardinality({w \in SpawnedIds : thr[w] = "exited"}) = MaxSize - 1

====
